---- MODULE Spec2Model ----
(***************************************************************************)
(* Model of tools/mock-okta/util.js: the request normalizer                *)
(* (util.mapRequestToCache), the response reconstruction                   *)
(* (util.mapCachedHeadersToResponse, util.mapCachedBodyToResponse) and the *)
(* token swappers (swapIdToken, swapAccessToken).                          *)
(*                                                                         *)
(* A JavaScript string is a sequence of one-character strings, so that     *)
(* indexOf, replace, split, trim, sort and the regular expressions are     *)
(* computed on the characters as the code computes them.                   *)
(***************************************************************************)
EXTENDS Integers, Sequences, FiniteSets, TLC

VARIABLES
  req,        \* the inbound request: [method, url, headers], mutated in place
  orig,       \* history: the request as it arrived, and what its url and
              \* access-control-request-headers were built from
  record,     \* the record-mode flag
  data,       \* the object returned by mapRequestToCache / handed to the response mappers
  err,        \* "none", or the exception the last call threw
  pc,         \* where the request/response cycle stands
  sentState,  \* history: the state value the last authorize request carried
  cached,     \* the cached response headers
  mapped,     \* the result of mapCachedHeadersToResponse
  chunk,      \* the cached response body
  body,       \* the result of mapCachedBodyToResponse
  now,        \* Math.floor(new Date().getTime() / 1000)
  tokIn,      \* the token handed to a swap function
  patch,      \* the data handed to a swap function
  tokOut      \* the token a swap function returned

vars == <<req, orig, record, data, err, pc, sentState, cached, mapped, chunk, body, now, tokIn, patch, tokOut>>

----------------------------------------------------------------------------
\* Bounds of the model

\* the longest query string, in parameters, of a generated url
MaxParams == 2
\* the longest access-control-request-headers list, in names
MaxNames == 3
\* the clock runs over 0..MaxNow
MaxNow == 2
\* the longest cached body, in segments
MaxSegments == 3

----------------------------------------------------------------------------
\* JavaScript strings

\* the characters in code-unit order (what Array.prototype.sort compares)
CodeUnits == <<" ","#","%","&","(",")","*","+",",","-",".","/","0","1","2","3","4","5","6","7","8","9",":",";","<","=",">","?","A","B","C","D","E","F","G","I","J","L","M","N","O","P","R","S","T","U","V","W","X","Y","Z","_","a","b","c","d","e","f","g","h","i","j","k","l","m","n","o","p","q","r","s","t","u","v","w","x","y","z">>

Code(c) == CHOOSE i \in 1..Len(CodeUnits) : CodeUnits[i] = c

\* the value of a property that is not there
Undef == <<"#undefined">>

\* if (x): undefined and the empty string are falsy
Truthy(s) == s # Undef /\ s # <<>>

Slice(s, a, b) == IF a > b THEN <<>> ELSE SubSeq(s, a, b)

StartsWithAt(s, p, i) ==
  /\ i >= 1
  /\ i + Len(p) - 1 <= Len(s)
  /\ \A k \in 1..Len(p) : s[i + k - 1] = p[k]

\* the least place of a set of places, 0 if there is none
Least(hits) == IF hits = {} THEN 0 ELSE CHOOSE j \in hits : \A k \in hits : j <= k

\* the 1-based place of the first occurrence of p in s at or after i, 0 if none
FindFrom(s, p, i) == Least({j \in i..(Len(s) - Len(p) + 1) : StartsWithAt(s, p, j)})

\* String.prototype.indexOf: 0-based, -1 if none
indexOf(s, p) == FindFrom(s, p, 1) - 1

\* s with the n characters at j replaced by r; s itself if j is no place
ReplaceAt(s, j, n, r) ==
  IF j = 0 THEN s ELSE Slice(s, 1, j - 1) \o r \o Slice(s, j + n, Len(s))

\* String.prototype.replace(string, string): the first occurrence only
replace(s, p, r) == ReplaceAt(s, FindFrom(s, p, 1), Len(p), r)

\* String.prototype.split(sep) for a one-character separator
RECURSIVE split(_, _)
SplitAt(s, sep, j) ==
  IF j = 0 THEN <<s>>
  ELSE <<Slice(s, 1, j - 1)>> \o split(Slice(s, j + 1, Len(s)), sep)

split(s, sep) == SplitAt(s, sep, FindFrom(s, <<sep>>, 1))

\* Array.prototype.join
RECURSIVE join(_, _)
join(parts, sep) ==
  IF parts = <<>> THEN <<>>
  ELSE IF Len(parts) = 1 THEN parts[1]
  ELSE parts[1] \o sep \o join(Tail(parts), sep)

IsSpace(c) == c = " "

\* String.prototype.trim
RECURSIVE trim(_)
trim(s) ==
  IF s = <<>> THEN s
  ELSE IF IsSpace(s[1]) THEN trim(Tail(s))
  ELSE IF IsSpace(s[Len(s)]) THEN trim(Slice(s, 1, Len(s) - 1))
  ELSE s

\* a < b as JavaScript compares strings: by code units, a proper prefix first
RECURSIVE StrLess(_, _)
StrLess(a, b) ==
  IF b = <<>> THEN FALSE
  ELSE IF a = <<>> THEN TRUE
  ELSE IF a[1] = b[1] THEN StrLess(Tail(a), Tail(b))
  ELSE Code(a[1]) < Code(b[1])

RECURSIVE InsertSorted(_, _)
InsertSorted(x, xs) ==
  IF xs = <<>> THEN <<x>>
  ELSE IF StrLess(x, xs[1]) THEN <<x>> \o xs
  ELSE <<xs[1]>> \o InsertSorted(x, Tail(xs))

\* Array.prototype.sort() with the default comparison
RECURSIVE sort(_)
sort(xs) == IF xs = <<>> THEN <<>> ELSE InsertSorted(xs[1], sort(Tail(xs)))

SelectSeqNot(xs, banned) == SelectSeq(xs, LAMBDA x : x \notin banned)

\* the lower-case form of a character, for the regular expressions' i flag
Lower(c) ==
  CASE c = "A" -> "a" [] c = "D" -> "d" [] c = "R" -> "r" [] c = "U" -> "u"
    [] c = "M" -> "m" [] OTHER -> c

----------------------------------------------------------------------------
\* JavaScript values that are undefined, a string or an array of strings
\* (what querystring.parse gives for a key)

JsUndefined == [t |-> "undefined", v |-> <<>>]
JsString(s) == [t |-> "string", v |-> <<s>>]
JsArray(xs) == [t |-> "array", v |-> xs]

\* `${x}`: the conversion to a string inside a template literal
ToStr(x) ==
  IF x.t = "undefined" THEN <<"u","n","d","e","f","i","n","e","d">>
  ELSE join(x.v, <<",">>)

----------------------------------------------------------------------------
\* util.parseQuery

\* querystring.unescape for the escapes the generated urls use; any other
\* text is kept as it is
RECURSIVE unescape(_)
unescape(s) ==
  IF s = <<>> THEN <<>>
  ELSE IF s[1] = "+" THEN <<" ">> \o unescape(Tail(s))
  ELSE IF StartsWithAt(s, <<"%","2","0">>, 1) THEN <<" ">> \o unescape(Slice(s, 4, Len(s)))
  ELSE IF StartsWithAt(s, <<"%","2","F">>, 1) THEN <<"/">> \o unescape(Slice(s, 4, Len(s)))
  ELSE <<s[1]>> \o unescape(Tail(s))

\* url.parse(urlStr).query: what follows the first '?', up to the first '#';
\* Undef stands for null
BeforeHash(urlStr, h) == IF h = 0 THEN urlStr ELSE Slice(urlStr, 1, h - 1)

AfterQuestionMark(rest, q) == IF q = 0 THEN Undef ELSE Slice(rest, q + 1, Len(rest))

SearchOf(rest) == AfterQuestionMark(rest, FindFrom(rest, <<"?">>, 1))

UrlQuery(urlStr) == SearchOf(BeforeHash(urlStr, FindFrom(urlStr, <<"#">>, 1)))

\* one key=value part of a query string, unescaped
PairAt(part, e) ==
  IF e = 0 THEN [k |-> unescape(part), v |-> <<>>]
  ELSE [k |-> unescape(Slice(part, 1, e - 1)),
        v |-> unescape(Slice(part, e + 1, Len(part)))]

QueryPair(part) == PairAt(part, FindFrom(part, <<"=">>, 1))

\* the pairs of the parts of a query string that are not empty
QueryPairs(parts) == [i \in DOMAIN parts |-> QueryPair(parts[i])]

ValuesOfPairs(pairs) == [i \in DOMAIN pairs |-> pairs[i].v]

\* a key that occurs once gives a string, one that occurs again an array
AsJsValue(vals) ==
  IF Len(vals) = 0 THEN JsUndefined
  ELSE IF Len(vals) = 1 THEN JsString(vals[1])
  ELSE JsArray(vals)

\* querystring.parse(query)[key]
QueryGet(query, key) ==
  IF query = Undef THEN JsUndefined
  ELSE AsJsValue(ValuesOfPairs(
         SelectSeq(QueryPairs(SelectSeq(split(query, "&"), LAMBDA p : p # <<>>)),
                   LAMBDA p : p.k = key)))

ParsedQuery(query) ==
  [response_mode |-> QueryGet(query, <<"r","e","s","p","o","n","s","e","_","m","o","d","e">>),
   state |-> QueryGet(query, <<"s","t","a","t","e">>),
   nonce |-> QueryGet(query, <<"n","o","n","c","e">>)]

parseQuery(urlStr) == ParsedQuery(UrlQuery(urlStr))

----------------------------------------------------------------------------
\* util.mapRequestToCache

HeaderNames ==
  {"upgrade-insecure-requests", "x-okta-user-agent-extended", "if-none-match",
   "if-modified-since", "expect", "referer", "user-agent", "connection",
   "accept-language", "accept-encoding", "accept", "content-type",
   "content-length", "access-control-request-method",
   "access-control-request-headers", "cookie", "cache-control", "pragma",
   "authorization", "host"}

UserAgent == <<"M","o","z","i","l","l","a","/","5",".","0"," ","(","M","a","c","i","n","t","o","s","h",";"," ","I","n","t","e","l"," ","M","a","c"," ","O","S"," ","X"," ","1","0",".","1","0",";"," ","r","v",":","4","8",".","0",")"," ","G","e","c","k","o","/","2","0","1","0","0","1","0","1"," ","F","i","r","e","f","o","x","/","4","8",".","0">>
AcceptHtml == <<"t","e","x","t","/","h","t","m","l",",","a","p","p","l","i","c","a","t","i","o","n","/","x","h","t","m","l","+","x","m","l",",","a","p","p","l","i","c","a","t","i","o","n","/","x","m","l",";","q","=","0",".","9",",","i","m","a","g","e","/","w","e","b","p",",","*","/","*",";","q","=","0",".","8">>

\* keys.accessToken of ./keys-test, an opaque string
KeysAccessToken == <<"e","y","J","r","Z","X","l","z","L","m","F","j","Y","2","V","z","c","1","R","v","a","2","V","u">>

\* the object mapRequestToCache starts from: const data = {}
EmptyData ==
  [isAuthorizeReq |-> FALSE, responseMode |-> JsUndefined, state |-> JsUndefined,
   nonce |-> JsUndefined, cookie |-> Undef, isRedirectCallback |-> FALSE,
   isTokenReq |-> FALSE]

\* delete headers[...]; and the forced user-agent, connection, accept-language
\* and accept-encoding
DropAndForce(h) ==
  [h EXCEPT !["upgrade-insecure-requests"] = Undef,
            !["x-okta-user-agent-extended"] = Undef,
            !["if-none-match"] = Undef,
            !["if-modified-since"] = Undef,
            !["expect"] = Undef,
            !["referer"] = Undef,
            !["user-agent"] = UserAgent,
            !["connection"] = <<"k","e","e","p","-","a","l","i","v","e">>,
            !["accept-language"] = <<"e","n","-","U","S">>,
            !["accept-encoding"] = <<"g","z","i","p">>]

NormalizeAccept(h) ==
  IF Truthy(h["accept"])
  THEN IF indexOf(h["accept"], <<"t","e","x","t","/","h","t","m","l">>) > -1
       THEN [h EXCEPT !["accept"] = AcceptHtml]
       ELSE IF indexOf(h["accept"], <<"j","s","o","n">>) > -1
            THEN [h EXCEPT !["accept"] = <<"a","p","p","l","i","c","a","t","i","o","n","/","j","s","o","n">>]
            ELSE [h EXCEPT !["accept"] = <<"*","/","*">>]
  ELSE h

ForceContentType(h, isPreflight, url) ==
  IF ~isPreflight /\ indexOf(url, <<"/","a","p","i","/","v","1">>) > -1
  THEN [h EXCEPT !["content-type"] = <<"a","p","p","l","i","c","a","t","i","o","n","/","j","s","o","n">>]
  ELSE h

DropEmptyContentLength(h) ==
  IF h["content-length"] = <<"0">> THEN [h EXCEPT !["content-length"] = Undef] ELSE h

\* .map(header => header.trim())
TrimAll(names) == [i \in DOMAIN names |-> trim(names[i])]

\* .split(',').map(trim).filter(not accept, origin).sort().join(', ')
NormalizeRequestHeaders(v) ==
  join(sort(SelectSeqNot(TrimAll(split(v, ",")), {<<"a","c","c","e","p","t">>, <<"o","r","i","g","i","n">>})), <<","," ">>)

\* /ADRUM[^;]+(;|$)\s*/gi matches at i: ADRUM in any case, one or more
\* characters other than ';', then ';' or the end, then white space
AdrumAt(s, i) ==
  /\ i + 5 <= Len(s)
  /\ [k \in 1..5 |-> Lower(s[i + k - 1])] = <<"a","d","r","u","m">>
  /\ s[i + 5] # ";"

\* the last place of [^;]+ in a match that starts at i
RECURSIVE LastNotSemi(_, _)
LastNotSemi(s, j) ==
  IF j + 1 <= Len(s) /\ s[j + 1] # ";" THEN LastNotSemi(s, j + 1) ELSE j

RECURSIVE SkipSpaces(_, _)
SkipSpaces(s, j) ==
  IF j + 1 <= Len(s) /\ IsSpace(s[j + 1]) THEN SkipSpaces(s, j + 1) ELSE j

\* (;|$)\s* after the name and value that end at e
AfterValue(s, e) == IF e = Len(s) THEN e ELSE SkipSpaces(s, e + 1)

\* the last place of the match that starts at i
AdrumEnd(s, i) == AfterValue(s, LastNotSemi(s, i + 5))

\* cookie.replace(/ADRUM[^;]+(;|$)\s*/gi, '')
RECURSIVE ScrubFrom(_, _)
ScrubFrom(s, i) ==
  IF i > Len(s) THEN <<>>
  ELSE IF AdrumAt(s, i) THEN ScrubFrom(s, AdrumEnd(s, i) + 1)
  ELSE <<s[i]>> \o ScrubFrom(s, i + 1)

ScrubCookie(h) ==
  [h EXCEPT !["cookie"] = ScrubFrom(IF Truthy(@) THEN @ ELSE <<>>, 1)]

NoCache(h) ==
  [h EXCEPT !["cache-control"] = <<"n","o","-","c","a","c","h","e",","," ","n","o","-","s","t","o","r","e">>, !["pragma"] = <<"n","o","-","c","a","c","h","e">>]

\* the conditions of the flow branches, in the order of the else-if chain
IsAuthorizeUrl(url) == indexOf(url, <<"a","u","t","h","o","r","i","z","e","?">>) > -1
IsAuthnUrl(url) == url = <<"/","a","p","i","/","v","1","/","a","u","t","h","n">>
IsSessionDelete(url, method) == indexOf(url, <<"/","s","e","s","s","i","o","n","s","/","m","e">>) > -1 /\ method = "DELETE"
IsRedirectUrl(url) == indexOf(url, <<"/","o","a","u","t","h","2","/","v","1","/","a","u","t","h","o","r","i","z","e","/","r","e","d","i","r","e","c","t">>) = 0
IsTokenUrl(url) == indexOf(url, <<"/","o","a","u","t","h","2","/","d","e","f","a","u","l","t","/","v","1","/","t","o","k","e","n">>) = 0
IsUserinfoUrl(url) == indexOf(url, <<"/","o","a","u","t","h","2","/","d","e","f","a","u","l","t","/","v","1","/","u","s","e","r","i","n","f","o">>) >= 0

\* the url with the state, the nonce and the scope order replaced
RewriteUrl(url, query) ==
  replace(replace(replace(url, <<"s","t","a","t","e","=">> \o ToStr(query.state), <<"s","t","a","t","e","=","S","T","A","T","E">>),
                  <<"n","o","n","c","e","=">> \o ToStr(query.nonce), <<"n","o","n","c","e","=","N","O","N","C","E">>),
          <<"p","r","o","f","i","l","e","%","2","0","e","m","a","i","l","%","2","0","o","p","e","n","i","d">>, <<"o","p","e","n","i","d","%","2","0","p","r","o","f","i","l","e","%","2","0","e","m","a","i","l">>)

AuthorizeWith(r, query) ==
  [req |-> [r EXCEPT !.url = RewriteUrl(r.url, query), !.headers["cookie"] = Undef],
   data |-> [EmptyData EXCEPT !.isAuthorizeReq = TRUE,
                              !.responseMode = query.response_mode,
                              !.state = query.state,
                              !.nonce = query.nonce,
                              !.cookie = r.headers["cookie"]]]

\* the authorize branch
AuthorizeBranch(r) == AuthorizeWith(r, parseQuery(r.url))

\* the chain with the redirect-callback condition as an if of its own, which
\* the claim of exclusive branches must tell from the else-if chain
FlowBranchesIndependent(r, rec) ==
  LET first == IF IsAuthorizeUrl(r.url) THEN AuthorizeBranch(r)
               ELSE IF IsAuthnUrl(r.url)
                 THEN [req |-> [r EXCEPT !.headers["cookie"] = Undef],
                       data |-> [EmptyData EXCEPT !.cookie = r.headers["cookie"]]]
               ELSE IF IsSessionDelete(r.url, r.method)
                 THEN [req |-> r, data |-> [EmptyData EXCEPT !.cookie = r.headers["cookie"]]]
               ELSE IF IsTokenUrl(r.url)
                 THEN [req |-> r, data |-> [EmptyData EXCEPT !.isTokenReq = TRUE]]
               ELSE IF ~rec /\ IsUserinfoUrl(r.url)
                 THEN [req |-> [r EXCEPT !.headers["authorization"] = <<"B","e","a","r","e","r"," ">> \o KeysAccessToken],
                       data |-> EmptyData]
               ELSE [req |-> r, data |-> EmptyData]
  IN IF IsRedirectUrl(r.url)
     THEN [first EXCEPT !.data.isRedirectCallback = TRUE]
     ELSE first

\* the else-if chain of the flow branches
FlowBranches(r, rec) ==
  IF IsAuthorizeUrl(r.url) THEN AuthorizeBranch(r)
  ELSE IF IsAuthnUrl(r.url)
    THEN [req |-> [r EXCEPT !.headers["cookie"] = Undef],
          data |-> [EmptyData EXCEPT !.cookie = r.headers["cookie"]]]
  ELSE IF IsSessionDelete(r.url, r.method)
    THEN [req |-> r, data |-> [EmptyData EXCEPT !.cookie = r.headers["cookie"]]]
  ELSE IF IsRedirectUrl(r.url)
    THEN [req |-> r, data |-> [EmptyData EXCEPT !.isRedirectCallback = TRUE]]
  ELSE IF IsTokenUrl(r.url)
    THEN [req |-> r, data |-> [EmptyData EXCEPT !.isTokenReq = TRUE]]
  ELSE IF ~rec /\ IsUserinfoUrl(r.url)
    THEN [req |-> [r EXCEPT !.headers["authorization"] = <<"B","e","a","r","e","r"," ">> \o KeysAccessToken],
          data |-> EmptyData]
  ELSE [req |-> r, data |-> EmptyData]

\* the preflight block: undefined.split is a TypeError
PreflightList(h) ==
  IF h["access-control-request-headers"] = Undef
  THEN [err |-> "TypeError", headers |-> h]
  ELSE [err |-> "none",
        headers |-> [h EXCEPT !["access-control-request-headers"] = NormalizeRequestHeaders(@)]]

PreflightBlock(h, isPreflight) ==
  IF isPreflight THEN PreflightList(DropEmptyContentLength(h))
  ELSE [err |-> "none", headers |-> h]

\* the statements up to the preflight block
HeaderStage(r, isPreflight) ==
  PreflightBlock(ForceContentType(NormalizeAccept(DropAndForce(r.headers)), isPreflight, r.url),
                 isPreflight)

Completed(out) == [err |-> "none", req |-> out.req, data |-> out.data]

\* the statements after the preflight block; when it threw, the headers
\* changed so far stay changed and nothing is returned
FlowStage(r, st, rec) ==
  IF st.err # "none"
  THEN [err |-> st.err, req |-> [r EXCEPT !.headers = st.headers], data |-> EmptyData]
  ELSE Completed(FlowBranches([r EXCEPT !.headers = NoCache(ScrubCookie(st.headers))], rec))

\* mapRequestToCache(req, record): the request as it leaves it, the object it
\* returns and the exception it throws, if any
mapRequestToCache(r, rec) ==
  FlowStage(r, HeaderStage(r, Truthy(r.headers["access-control-request-method"])), rec)

----------------------------------------------------------------------------
\* The requests the model feeds the normalizer

Concat(a, b) == a \o b

\* the headers of a request that sends none of the modelled ones
NoHeaders == [n \in HeaderNames |-> Undef]

\* the headers a browser sends with a page request
BrowserHeaders ==
  [NoHeaders EXCEPT
     !["host"] = <<"l","o","c","a","l","h","o","s","t",":","7","7","7","7">>,
     !["user-agent"] = <<"P","h","a","n","t","o","m","J","S">>,
     !["accept"] = <<"t","e","x","t","/","h","t","m","l",",","*","/","*">>,
     !["referer"] = <<"h","t","t","p",":","/","/","l","o","c","a","l","h","o","s","t",":","3","0","0","0","/">>,
     !["if-none-match"] = <<"W","/","1">>,
     !["upgrade-insecure-requests"] = <<"1">>,
     !["cookie"] = <<"A","D","R","U","M","_","1","2","3","=","x","y","z",";"," ","s","e","s","s","i","o","n","=","a","b","c">>]

Paths ==
  {<<"/","o","a","u","t","h","2","/","v","1","/","a","u","t","h","o","r","i","z","e">>, <<"/","a","p","i","/","v","1","/","a","u","t","h","n">>, <<"/","a","p","i","/","v","1","/","s","e","s","s","i","o","n","s","/","m","e">>,
   <<"/","o","a","u","t","h","2","/","v","1","/","a","u","t","h","o","r","i","z","e","/","r","e","d","i","r","e","c","t">>, <<"/","o","a","u","t","h","2","/","d","e","f","a","u","l","t","/","v","1","/","t","o","k","e","n">>,
   <<"/","o","a","u","t","h","2","/","d","e","f","a","u","l","t","/","v","1","/","u","s","e","r","i","n","f","o">>, <<"/","o","a","u","t","h","2","/","d","e","f","a","u","l","t","/","v","1","/","k","e","y","s">>}

\* query parameters as they are written in the url: [name, written value, value]
Params ==
  {[n |-> <<"s","t","a","t","e">>, w |-> <<"a","b","c">>, v |-> <<"a","b","c">>],
   [n |-> <<"s","t","a","t","e">>, w |-> <<"a","%","2","0","b">>, v |-> <<"a"," ","b">>],
   [n |-> <<"n","o","n","c","e">>, w |-> <<"n","1">>, v |-> <<"n","1">>],
   [n |-> <<"n","o","n","c","e">>, w |-> <<"n","%","2","F","2">>, v |-> <<"n","/","2">>],
   [n |-> <<"m","y","_","s","t","a","t","e">>, w |-> <<"a","b","c">>, v |-> <<"a","b","c">>],
   [n |-> <<"r","e","s","p","o","n","s","e","_","m","o","d","e">>, w |-> <<"o","k","t","a","_","p","o","s","t","_","m","e","s","s","a","g","e">>, v |-> <<"o","k","t","a","_","p","o","s","t","_","m","e","s","s","a","g","e">>],
   [n |-> <<"s","c","o","p","e">>, w |-> <<"p","r","o","f","i","l","e","%","2","0","e","m","a","i","l","%","2","0","o","p","e","n","i","d">>, v |-> <<"p","r","o","f","i","l","e"," ","e","m","a","i","l"," ","o","p","e","n","i","d">>],
   [n |-> <<"f","r","o","m","U","R","I">>, w |-> <<"/","a","u","t","h","o","r","i","z","e","?","x">>, v |-> <<"/","a","u","t","h","o","r","i","z","e","?","x">>]}

ParamLists == UNION {[1..k -> Params] : k \in 0..MaxParams}

\* name=written, joined by '&'
QueryString(ps) == join([i \in 1..Len(ps) |-> ps[i].n \o <<"=">> \o ps[i].w], <<"&">>)

Url(path, ps) == IF ps = <<>> THEN path ELSE path \o <<"?">> \o QueryString(ps)

Contains(s, p) == FindFrom(s, p, 1) > 0

Range(f) == {f[i] : i \in DOMAIN f}

\* the written and the meant values of the query parameters called n
Written(ps, n) == {ps[i].w : i \in {j \in DOMAIN ps : ps[j].n = n}}
Values(ps, n) == {ps[i].v : i \in {j \in DOMAIN ps : ps[j].n = n}}
Occurrences(ps, n) == Cardinality({j \in DOMAIN ps : ps[j].n = n})

\* requests that differ in the url
UrlRequests ==
  {[method |-> m, url |-> Url(p, ps), headers |-> h, params |-> ps, names |-> <<>>] :
     m \in {"GET", "DELETE"}, p \in Paths, ps \in ParamLists, h \in {NoHeaders, BrowserHeaders}}

\* the names a browser lists in access-control-request-headers, as written
\* between the commas
ListedNames == {<<"a","c","c","e","p","t">>, <<" ","o","r","i","g","i","n">>, <<"x","-","f","o","o">>, <<"O","r","i","g","i","n">>, <<" ","X","-","F","o","o">>, <<" ","A","c","c","e","p","t">>}

NameLists == UNION {[1..k -> ListedNames] : k \in 1..MaxNames}

\* CORS preflight requests, and requests that look like them
\* the header that lists the names ns; no header for no names
RequestHeaders(ns) == IF ns = <<>> THEN Undef ELSE join(ns, <<",">>)

PreflightRequests ==
  {[method |-> "OPTIONS", url |-> u,
    headers |-> [NoHeaders EXCEPT !["access-control-request-method"] = m,
                                  !["access-control-request-headers"] = RequestHeaders(ns),
                                  !["content-length"] = c],
    params |-> <<>>, names |-> ns] :
     u \in {<<"/","a","p","i","/","v","1","/","s","e","s","s","i","o","n","s","/","m","e">>},
     m \in {Undef, <<"D","E","L","E","T","E">>},
     ns \in {<<>>} \cup NameLists,
     c \in {Undef, <<"0">>}}

Cookies ==
  {Undef, <<>>, <<"A","D","R","U","M","_","1","2","3","=","x","y","z",";"," ","s","e","s","s","i","o","n","=","a","b","c">>, <<"s","e","s","s","i","o","n","=","a","b","c",";"," ","a","d","r","u","m","=","1">>,
   <<"s","i","d","=","1",";"," ","A","D","R","U","M","=","s","=","1",";"," "," ","t","=","2">>, <<"A","D","R","U","M",";","x","=","1">>, <<"A","A","D","R","U","M","=","1",";","D","R","U","M","=","2">>}

Accepts == {Undef, <<>>, <<"t","e","x","t","/","h","t","m","l",",","*","/","*">>, <<"t","e","x","t","/","j","s","o","n">>, <<"i","m","a","g","e","/","p","n","g">>}

\* requests that differ in the accept, cookie and content-length headers
HeaderRequests ==
  {[method |-> m, url |-> u,
    headers |-> [NoHeaders EXCEPT !["accept"] = a, !["cookie"] = c,
                                  !["content-length"] = l, !["expect"] = e],
    params |-> <<>>, names |-> <<>>] :
     m \in {"GET", "DELETE"}, u \in Paths,
     a \in Accepts, c \in Cookies, l \in {Undef, <<"0">>}, e \in {Undef, <<"1","0","0","-","c","o","n","t","i","n","u","e">>}}

Requests == UrlRequests \cup PreflightRequests \cup HeaderRequests

----------------------------------------------------------------------------
\* The normalizer's specification: a request arrives, mapRequestToCache runs
\* on it, and runs a second time on the request it left

NoToken == [header |-> [alg |-> "none", kid |-> "none"], claims |-> <<>>, sig |-> <<>>]

Idle ==
  /\ sentState = Undef
  /\ cached = <<>>
  /\ mapped = <<>>
  /\ chunk = <<>>
  /\ body = <<>>
  /\ now = 0
  /\ tokIn = NoToken
  /\ patch = <<>>
  /\ tokOut = NoToken

\* the request object the proxy hands over
Request(a) == [method |-> a.method, url |-> a.url, headers |-> a.headers]

Init ==
  /\ orig \in Requests
  /\ req = Request(orig)
  /\ record \in BOOLEAN
  /\ data = EmptyData
  /\ err = "none"
  /\ pc = "received"
  /\ Idle

\* a call of mapRequestToCache that ended as out
Normalized(out, done) ==
  /\ req' = out.req
  /\ data' = out.data
  /\ err' = out.err
  /\ pc' = IF out.err = "none" THEN done ELSE "failed"

\* the proxy hands the request to mapRequestToCache
MapRequestToCache ==
  /\ pc = "received"
  /\ Normalized(mapRequestToCache(req, record), "normalized")
  /\ UNCHANGED <<orig, record, sentState, cached, mapped, chunk, body, now, tokIn, patch, tokOut>>

\* mapRequestToCache is applied to the request it has already normalized
MapRequestToCacheAgain ==
  /\ pc = "normalized"
  /\ Normalized(mapRequestToCache(req, record), "renormalized")
  /\ UNCHANGED <<orig, record, sentState, cached, mapped, chunk, body, now, tokIn, patch, tokOut>>

Next == MapRequestToCache \/ MapRequestToCacheAgain

Spec == Init /\ [][Next]_vars

----------------------------------------------------------------------------
\* replaceUrls

\* data.proxy, data.proxied and data.cdn of the proxy's configuration, and
\* what url.parse gives for them
DataProxy == <<"h","t","t","p",":","/","/","l","o","c","a","l","h","o","s","t",":","7","7","7","7">>
ProxiedProtocol == <<"h","t","t","p">>
ProxiedHostname == <<"r","a","i","n",".","o","k","t","a","1",".","c","o","m">>
ProxiedPort == <<"1","8","0","2">>
CdnHost == <<"o","p","1","s","t","a","t","i","c",".","o","k","t","a","c","d","n",".","c","o","m">>

\* the pattern text p, in which '.' stands for any character, matches s at i
MatchesAt(s, p, i) ==
  /\ i >= 1
  /\ i + Len(p) - 1 <= Len(s)
  /\ \A k \in 1..Len(p) : p[k] = "." \/ s[i + k - 1] = p[k]

\* <protocol>.{3,12}<hostname>[.{1,4}<port>] matches s at i with gaps of g and
\* g2 characters
EscapesMatch(s, i, g, g2) ==
  /\ MatchesAt(s, ProxiedProtocol, i)
  /\ i + Len(ProxiedProtocol) + g - 1 <= Len(s)
  /\ MatchesAt(s, ProxiedHostname, i + Len(ProxiedProtocol) + g)
  /\ ProxiedPort # <<>> =>
       MatchesAt(s, ProxiedPort, i + Len(ProxiedProtocol) + g + Len(ProxiedHostname) + g2)

\* the gaps the quantifiers take: they are greedy, the first before the second
Greediest(fits) ==
  CHOOSE p \in fits : \A q \in fits : q[1] < p[1] \/ (q[1] = p[1] /\ q[2] <= p[2])

EscapesFits(s, i) ==
  {p \in (3..12) \X (IF ProxiedPort = <<>> THEN {0} ELSE 1..4) : EscapesMatch(s, i, p[1], p[2])}

EndOfFits(i, fits) ==
  IF fits = {} THEN 0
  ELSE i + Len(ProxiedProtocol) + Greediest(fits)[1] + Len(ProxiedHostname)
         + Greediest(fits)[2] + Len(ProxiedPort) - 1

\* the last place of the match of the escapes pattern that starts at i, 0 if
\* there is none
EscapesEnd(s, i) == EndOfFits(i, EscapesFits(s, i))

\* the last place of the match of (https:)?//<cdn host> that starts at i
CdnEnd(s, i) ==
  IF StartsWithAt(s, <<"h","t","t","p","s",":">>, i) /\ MatchesAt(s, <<"/","/">> \o CdnHost, i + 6)
  THEN i + 6 + 2 + Len(CdnHost) - 1
  ELSE IF MatchesAt(s, <<"/","/">> \o CdnHost, i) THEN i + 2 + Len(CdnHost) - 1
  ELSE 0

\* str.replace(new RegExp(escapes, 'g'), data.proxy)
RECURSIVE ReplaceEscapes(_, _)
ReplaceEscapesAt(s, i, e) ==
  IF e > 0 THEN DataProxy \o ReplaceEscapes(s, e + 1)
  ELSE <<s[i]>> \o ReplaceEscapes(s, i + 1)

ReplaceEscapes(s, i) ==
  IF i > Len(s) THEN <<>> ELSE ReplaceEscapesAt(s, i, EscapesEnd(s, i))

\* str.replace(new RegExp(cdn pattern, 'g'), data.proxy)
RECURSIVE ReplaceCdn(_, _)
ReplaceCdnAt(s, i, e) ==
  IF e > 0 THEN DataProxy \o ReplaceCdn(s, e + 1)
  ELSE <<s[i]>> \o ReplaceCdn(s, i + 1)

ReplaceCdn(s, i) ==
  IF i > Len(s) THEN <<>> ELSE ReplaceCdnAt(s, i, CdnEnd(s, i))

replaceUrls(str) == ReplaceCdn(ReplaceEscapes(str, 1), 1)

----------------------------------------------------------------------------
\* util.mapCachedHeadersToResponse

ResponseHeaderNames ==
  {"location", "etag", "last-modified", "cache-control", "pragma", "content-type",
   "set-cookie"}

\* typeof val === 'string': set-cookie is the header that is an array
IsStringHeader(k, v) == k # "set-cookie" /\ v # Undef

\* the loop over Object.keys(headers)
ReplaceHeaderUrls(headers) ==
  [k \in ResponseHeaderNames |->
     IF IsStringHeader(k, headers[k]) THEN replaceUrls(headers[k]) ELSE headers[k]]

\* the caching headers forced and deleted at the end
DropCaching(m) ==
  [m EXCEPT !["cache-control"] = <<"n","o","-","c","a","c","h","e",","," ","n","o","-","s","t","o","r","e">>,
            !["pragma"] = <<"n","o","-","c","a","c","h","e">>,
            !["etag"] = Undef,
            !["last-modified"] = Undef]

\* mapped.location.replace('state=STATE', `state=${data.state}`);
\* undefined.replace is a TypeError
RestoreState(m, d) ==
  IF m["location"] = Undef
  THEN [err |-> "TypeError", mapped |-> <<>>]
  ELSE [err |-> "none",
        mapped |-> DropCaching([m EXCEPT !["location"] =
                     replace(@, <<"s","t","a","t","e","=","S","T","A","T","E">>, <<"s","t","a","t","e","=">> \o ToStr(d.state))])]

MapHeaders(m, d) ==
  IF d.isRedirectCallback THEN RestoreState(m, d)
  ELSE [err |-> "none", mapped |-> DropCaching(m)]

mapCachedHeadersToResponse(headers, d) == MapHeaders(ReplaceHeaderUrls(headers), d)

----------------------------------------------------------------------------
\* The authorization-code flow: an authorize request, then the requests that
\* follow it, each normalized and answered from the cache

FlowStates == {<<"a","b","c">>, <<"s","-","4","1">>}

AuthorizeRequests ==
  {[method |-> "GET",
    url |-> <<"/","o","a","u","t","h","2","/","v","1","/","a","u","t","h","o","r","i","z","e","?","s","t","a","t","e","=">> \o S \o <<"&","n","o","n","c","e","=","n","1">>,
    headers |-> h,
    params |-> <<[n |-> <<"s","t","a","t","e">>, w |-> S, v |-> S], [n |-> <<"n","o","n","c","e">>, w |-> <<"n","1">>, v |-> <<"n","1">>]>>,
    names |-> <<>>] :
     S \in FlowStates, h \in {NoHeaders, BrowserHeaders}}

FollowingRequests ==
  {[method |-> "GET", url |-> u, headers |-> BrowserHeaders, params |-> <<>>, names |-> <<>>] :
     u \in {<<"/","o","a","u","t","h","2","/","v","1","/","a","u","t","h","o","r","i","z","e","/","r","e","d","i","r","e","c","t","?","o","k","t","a","_","k","e","y","=","k","1">>, <<"/","o","a","u","t","h","2","/","d","e","f","a","u","l","t","/","v","1","/","t","o","k","e","n">>,
            <<"/","o","a","u","t","h","2","/","d","e","f","a","u","l","t","/","v","1","/","u","s","e","r","i","n","f","o">>}}

CachedHeaders ==
  {[n \in ResponseHeaderNames |->
      CASE n = "location" -> l
        [] n = "etag" -> e
        [] n = "cache-control" -> c
        [] n = "content-type" -> <<"t","e","x","t","/","h","t","m","l">>
        [] n = "set-cookie" -> <<<<"s","i","d","=","1">>>>
        [] OTHER -> Undef] :
     l \in {Undef, <<"h","t","t","p",":","/","/","l","o","c","a","l","h","o","s","t",":","3","0","0","0","/","c","b","?","c","o","d","e","=","c","1","&","s","t","a","t","e","=","S","T","A","T","E">>,
            <<"h","t","t","p",":","/","/","r","a","i","n",".","o","k","t","a","1",".","c","o","m",":","1","8","0","2","/","l","o","g","i","n","?","s","t","a","t","e","=","S","T","A","T","E","&","x","=","1">>,
            <<"h","t","t","p","s",":","/","/","o","p","1","s","t","a","t","i","c",".","o","k","t","a","c","d","n",".","c","o","m","/","l","o","g","i","n">>},
     e \in {Undef, <<"W","/","1">>},
     c \in {Undef, <<"m","a","x","-","a","g","e","=","6","0">>}}

InitFlow ==
  /\ orig \in AuthorizeRequests
  /\ req = Request(orig)
  /\ record \in BOOLEAN
  /\ data = EmptyData
  /\ err = "none"
  /\ pc = "received"
  /\ sentState = (CHOOSE S \in Values(orig.params, <<"s","t","a","t","e">>) : TRUE)
  /\ cached = <<>>
  /\ mapped = <<>>
  /\ chunk = <<>>
  /\ body = <<>>
  /\ now = 0
  /\ tokIn = NoToken
  /\ patch = <<>>
  /\ tokOut = NoToken

\* the next request of the flow arrives
ReceiveNext ==
  /\ pc \in {"normalized", "responded"}
  /\ data.isAuthorizeReq
  /\ orig' \in FollowingRequests
  /\ req' = Request(orig')
  /\ pc' = "received"
  /\ UNCHANGED <<record, data, err, sentState, cached, mapped, chunk, body, now, tokIn, patch, tokOut>>

\* a call of mapCachedHeadersToResponse on the headers h that ended as out
HeadersMapped(h, out) ==
  /\ cached' = h
  /\ mapped' = out.mapped
  /\ err' = out.err
  /\ pc' = IF out.err = "none" THEN "responded" ELSE "failed"

\* the cached response is found and its headers are mapped with the object
\* mapRequestToCache returned for this request
MapCachedHeadersToResponse ==
  /\ pc = "normalized"
  /\ \E h \in CachedHeaders : HeadersMapped(h, mapCachedHeadersToResponse(h, data))
  /\ UNCHANGED <<req, orig, record, data, sentState, chunk, body, now, tokIn, patch, tokOut>>

NextFlow == MapRequestToCache \/ ReceiveNext \/ MapCachedHeadersToResponse

SpecFlow == InitFlow /\ [][NextFlow]_vars

\* C1: after an authorize request that carried state=S, the location header
\* of the redirect-callback response, rebuilt with the extract mapRequestToCache
\* returned for the redirect-callback request, has state=S where the cached
\* header had state=STATE.
C1_RedirectRestoresState ==
  (/\ pc = "responded"
   /\ IsRedirectUrl(orig.url)
   /\ sentState # Undef
   /\ Contains(cached["location"], <<"s","t","a","t","e","=","S","T","A","T","E">>)) =>
    /\ Contains(mapped["location"], <<"s","t","a","t","e","=">> \o sentState)
    /\ ~Contains(mapped["location"], <<"s","t","a","t","e","=","S","T","A","T","E">>)


----------------------------------------------------------------------------
\* Tokens
\*
\* A compact-serialized token is the record of its header, its claims and its
\* signature; a signature is the record of the key, the algorithm and the
\* header and payload it was made over.  A claim whose value is JsUndefined is
\* a claim the payload does not have: JSON.stringify drops a property that is
\* undefined, and reading a property that is not there gives undefined.

\* keys.publicJwk.kid and keys.privatePem of ./keys-test
KeysKid == "keys.publicJwk.kid"
KeysPrivatePem == "keys.privatePem"

\* the values of an at_hash: undefined, the hash of a token, or other text
HashUndefined == [t |-> "undefined", of |-> {}]
HashText(x) == [t |-> x, of |-> {}]

\* tokenHash.generate(token, 'sha256'): one value for each token
tokenHashGenerate(token) == [t |-> "hash", of |-> {token}]

\* jws.sign({header, payload, secret}): signs with the header's own algorithm
jwsSign(header, payload, secret) ==
  [header |-> header,
   claims |-> payload,
   sig |-> [secret |-> secret, alg |-> header.alg, header |-> header, payload |-> payload]]

\* if (data.at_hash != 'undefined'): the comparison is with the text
\* 'undefined', which the value undefined does not equal
AtHashGiven(p) == p.at_hash # HashText("'undefined'")

\* header.kid = keys.publicJwk.kid
WithKid(header) == [header EXCEPT !.kid = KeysKid]

\* claims.nonce = data.nonce; claims.iss = data.iss
WithNonceAndIss(claims, p) == [claims EXCEPT !.nonce = p.nonce, !.iss = p.iss]

WithAtHash(claims, p) ==
  IF AtHashGiven(p) THEN [claims EXCEPT !.at_hash = p.at_hash] ELSE claims

\* claims.exp = Math.floor(new Date().getTime() / 1000) + 3600
WithExp(claims, t) == [claims EXCEPT !.exp = t + 3600]

swapIdToken(idToken, p, t) ==
  jwsSign(WithKid(idToken.header),
          WithExp(WithAtHash(WithNonceAndIss(idToken.claims, p), p), t),
          KeysPrivatePem)

swapAccessToken(accessToken, p, t) ==
  jwsSign(WithKid(accessToken.header),
          WithExp(WithNonceAndIss(accessToken.claims, p), t),
          KeysPrivatePem)

----------------------------------------------------------------------------
\* util.mapCachedBodyToResponse
\*
\* A body is a sequence of segments: text, or a token behind the marker a
\* regular expression of the code looks for.

TextSegment(s) == [kind |-> "text", text |-> s, tok |-> {}]
TokenSegment(k, token) == [kind |-> k, text |-> <<>>, tok |-> {token}]

\* /data.id_token = '([^']+)'/, /"access_token":"([^"]+)"/ and
\* /"id_token":"([^"]+)"/
MarkerIdTokenAssignment == "data.id_token = '"
MarkerAccessToken == "\"access_token\":\""
MarkerIdToken == "\"id_token\":\""

\* the place of the first segment with the marker, 0 if the match is null
MatchMarker(c, marker) == Least({i \in DOMAIN c : c[i].kind = marker})

\* newChunk.replace(token, newToken): the first occurrence of the token's text
ReplaceTokenAt(c, i, newToken) == IF i = 0 THEN c ELSE [c EXCEPT ![i].tok = {newToken}]

ReplaceToken(c, token, newToken) ==
  ReplaceTokenAt(c, Least({i \in DOMAIN c : c[i].tok = {token}}), newToken)

TokenAt(c, i) == CHOOSE token \in c[i].tok : TRUE

\* replaceUrls over the text of a body
replaceUrlsBody(c) ==
  [i \in DOMAIN c |-> IF c[i].kind = "text" THEN [c[i] EXCEPT !.text = replaceUrls(@)] ELSE c[i]]

issuer == JsString(DataProxy \o <<"/","o","a","u","t","h","2","/","d","e","f","a","u","l","t">>)

\* how a block ends: with an exception, or with the body and the token it
\* signed last
Thrown(e) == [err |-> e, body |-> <<>>, token |-> NoToken]
Returned(c) == [err |-> "none", body |-> c, token |-> NoToken]

\* the object literal {nonce: data.nonce, iss: issuer}, and the one with
\* at_hash: atHash
PatchOf(d) == [nonce |-> d.nonce, iss |-> issuer, at_hash |-> HashUndefined]
PatchWithHash(d, atHash) == [nonce |-> d.nonce, iss |-> issuer, at_hash |-> atHash]

\* newChunk = newChunk.replace(token, newToken)
Swapped(c, token, newToken) ==
  [err |-> "none", body |-> ReplaceToken(c, token, newToken), token |-> newToken]

\* newChunk.match(...)[1] with the match at i, a TypeError when the match is
\* null, then the swap of the token
SwapIdTokenAt(c, i, p, t) ==
  IF i = 0 THEN Thrown("TypeError")
  ELSE Swapped(c, TokenAt(c, i), swapIdToken(TokenAt(c, i), p, t))

SwapAccessTokenAt(c, a, p, t) ==
  IF a = 0 THEN Thrown("TypeError")
  ELSE Swapped(c, TokenAt(c, a), swapAccessToken(TokenAt(c, a), p, t))

SwapIdTokenBehind(c, marker, p, t) == SwapIdTokenAt(c, MatchMarker(c, marker), p, t)

SwapAccessTokenBehind(c, p, t) == SwapAccessTokenAt(c, MatchMarker(c, MarkerAccessToken), p, t)

\* the block for an authorize response in okta_post_message mode: the id
\* token, then the access token
ThenAccessToken(r, d, t) ==
  IF r.err # "none" THEN r ELSE SwapAccessTokenBehind(r.body, PatchOf(d), t)

SwapPostMessage(c, d, t) ==
  ThenAccessToken(SwapIdTokenBehind(c, MarkerIdTokenAssignment, PatchOf(d), t), d, t)

\* the block for a token response while recording
SwapTokenRecord(c, d, t) == SwapIdTokenBehind(c, MarkerIdToken, PatchOf(d), t)

\* playback that hashes the recorded access token instead of the newly signed
\* one, which the at_hash binding must tell from the code's order
SwapTokenPlaybackStaleHash(c, d, t) ==
  LET a == MatchMarker(c, MarkerAccessToken)
  IN IF a = 0 THEN Thrown("TypeError")
     ELSE
       LET accessToken == TokenAt(c, a)
           newAccessToken == swapAccessToken(accessToken, [nonce |-> d.nonce, iss |-> issuer, at_hash |-> HashUndefined], t)
           c1 == ReplaceToken(c, accessToken, newAccessToken)
           atHash == tokenHashGenerate(accessToken)
           i == MatchMarker(c1, MarkerIdToken)
       IN IF i = 0 THEN Thrown("TypeError")
          ELSE
            LET idToken == TokenAt(c1, i)
                newIdToken == swapIdToken(idToken, [nonce |-> d.nonce, iss |-> issuer, at_hash |-> atHash], t)
            IN Returned(ReplaceToken(c1, idToken, newIdToken))

\* playback that skips a token whose marker is missing instead of throwing,
\* which the missing-marker failure must tell from the code's null match
SwapTokenPlaybackSkipping(c, d, t) ==
  LET a == MatchMarker(c, MarkerAccessToken)
      c1 == IF a = 0 THEN c
            ELSE ReplaceToken(c, TokenAt(c, a),
                   swapAccessToken(TokenAt(c, a), [nonce |-> d.nonce, iss |-> issuer, at_hash |-> HashUndefined], t))
      i == MatchMarker(c1, MarkerIdToken)
  IN IF i = 0 \/ a = 0 THEN Returned(c1)
     ELSE Returned(ReplaceToken(c1, TokenAt(c1, i),
            swapIdToken(TokenAt(c1, i),
                        [nonce |-> d.nonce, iss |-> issuer, at_hash |-> tokenHashGenerate(TokenAt(c1, a))], t)))

\* the block for a token response while playing back: the access token, then
\* the id token with the hash of the access token just signed
ThenIdTokenWithHash(r, d, t) ==
  IF r.err # "none" THEN r
  ELSE SwapIdTokenBehind(r.body, MarkerIdToken,
                         PatchWithHash(d, tokenHashGenerate(r.token)), t)

SwapTokenPlayback(c, d, t) ==
  ThenIdTokenWithHash(SwapAccessTokenBehind(c, PatchOf(d), t), d, t)

PostMessageBlock(c, d, t) ==
  IF d.isAuthorizeReq /\ d.responseMode = JsString(<<"o","k","t","a","_","p","o","s","t","_","m","e","s","s","a","g","e">>)
  THEN SwapPostMessage(c, d, t)
  ELSE Returned(c)

TokenBlock(r, d, rec, t) ==
  IF r.err # "none" THEN r
  ELSE IF d.isTokenReq
       THEN IF rec THEN SwapTokenRecord(r.body, d, t) ELSE SwapTokenPlayback(r.body, d, t)
       ELSE r

mapCachedBodyToResponse(c, d, rec, t) ==
  TokenBlock(PostMessageBlock(replaceUrlsBody(c), d, t), d, rec, t)

----------------------------------------------------------------------------
\* The tokens, bodies and extracts the model feeds the response mappers

OktaIssuer == JsString(<<"h","t","t","p",":","/","/","r","a","i","n",".","o","k","t","a","1",".","c","o","m",":","1","8","0","2","/","o","a","u","t","h","2","/","d","e","f","a","u","l","t">>)

\* a token as Okta signed it
OktaToken(alg, nonce, atHash) ==
  jwsSign([alg |-> alg, kid |-> "okta-kid"],
          [nonce |-> nonce, iss |-> OktaIssuer, exp |-> 7, at_hash |-> atHash,
           sub |-> JsString(<<"0","0","u","1">>)],
          "okta-private-key")

\* the recorded access tokens
AccessTokens == {OktaToken(alg, JsUndefined, HashUndefined) : alg \in {"RS256", "RS384"}}

\* the recorded id tokens: with the at_hash of the access token they were
\* issued with, or without an at_hash
IdTokens ==
  {OktaToken("RS256", JsString(<<"N","O","N","C","E">>), h) :
     h \in {HashUndefined} \cup {tokenHashGenerate(a) : a \in AccessTokens}}

\* the tokens of a recorded response: an access token and the id tokens
\* issued with it
ResponseAccessTokens == {OktaToken("RS256", JsUndefined, HashUndefined)}
ResponseIdTokens ==
  {OktaToken("RS256", JsString(<<"N","O","N","C","E">>), h) :
     h \in {HashUndefined} \cup {tokenHashGenerate(a) : a \in ResponseAccessTokens}}

Segments ==
  {TextSegment(<<"<","a"," ","h","r","e","f","=","h","t","t","p",":","/","/","r","a","i","n",".","o","k","t","a","1",".","c","o","m",":","1","8","0","2","/","x",">">>), TextSegment(<<"o","k">>)}
  \cup {TokenSegment(k, i) : k \in {MarkerIdTokenAssignment, MarkerIdToken}, i \in ResponseIdTokens}
  \cup {TokenSegment(MarkerAccessToken, a) : a \in ResponseAccessTokens}

Markers == {MarkerIdTokenAssignment, MarkerAccessToken, MarkerIdToken}

\* the bodies of well-formed recorded responses: each marker at most once,
\* and no token twice
Chunks ==
  {c \in UNION {[1..k -> Segments] : k \in 0..MaxSegments} :
     \A i, j \in DOMAIN c :
       (i # j /\ c[i].kind \in Markers) => (c[i].kind # c[j].kind /\ c[i].tok # c[j].tok)}

\* the extracts mapRequestToCache returns, with the nonce the request carried
Extracts ==
  {[EmptyData EXCEPT !.isAuthorizeReq = TRUE, !.responseMode = m, !.nonce = n,
                     !.state = JsString(<<"a","b","c">>), !.cookie = <<>>] :
     m \in {JsString(<<"o","k","t","a","_","p","o","s","t","_","m","e","s","s","a","g","e">>), JsString(<<"f","r","a","g","m","e","n","t">>)},
     n \in {JsUndefined, JsString(<<"n","1">>)}}
  \cup {[EmptyData EXCEPT !.isTokenReq = TRUE], EmptyData}

InitBody ==
  /\ chunk \in Chunks
  /\ data \in Extracts
  /\ record \in BOOLEAN
  /\ now \in {0, MaxNow}
  /\ pc = "cached"
  /\ err = "none"
  /\ body = <<>>
  /\ req = <<>>
  /\ orig = <<>>
  /\ sentState = Undef
  /\ cached = <<>>
  /\ mapped = <<>>
  /\ tokIn = NoToken
  /\ patch = <<>>
  /\ tokOut = NoToken

\* a call of mapCachedBodyToResponse that ended as out
BodyMapped(out) ==
  /\ body' = out.body
  /\ err' = out.err
  /\ pc' = IF out.err = "none" THEN "responded" ELSE "failed"

\* the cached body is mapped with the extract of the request
MapCachedBodyToResponse ==
  /\ pc = "cached"
  /\ BodyMapped(mapCachedBodyToResponse(chunk, data, record, now))
  /\ UNCHANGED <<req, orig, record, data, sentState, cached, mapped, chunk, now, tokIn, patch, tokOut>>

NextBody == MapCachedBodyToResponse

SpecBody == InitBody /\ [][NextBody]_vars

----------------------------------------------------------------------------
\* The token swappers on their own

Patches ==
  {[nonce |-> n, iss |-> issuer, at_hash |-> h] :
     n \in {JsUndefined, JsString(<<"n","1">>)},
     h \in {HashUndefined, HashText("'undefined'")} \cup {tokenHashGenerate(a) : a \in AccessTokens}}

InitSwap ==
  /\ tokIn \in IdTokens \cup AccessTokens
  /\ patch \in Patches
  /\ now \in 0..MaxNow
  /\ tokOut = NoToken
  /\ pc = "decoded"
  /\ err = "none"
  /\ req = <<>>
  /\ orig = <<>>
  /\ record = FALSE
  /\ data = EmptyData
  /\ sentState = Undef
  /\ cached = <<>>
  /\ mapped = <<>>
  /\ chunk = <<>>
  /\ body = <<>>

SwapIdToken ==
  /\ pc = "decoded"
  /\ tokOut' = swapIdToken(tokIn, patch, now)
  /\ pc' = "swappedId"
  /\ UNCHANGED <<req, orig, record, data, err, sentState, cached, mapped, chunk, body, now, tokIn, patch>>

SwapAccessToken ==
  /\ pc = "decoded"
  /\ tokOut' = swapAccessToken(tokIn, patch, now)
  /\ pc' = "swappedAccess"
  /\ UNCHANGED <<req, orig, record, data, err, sentState, cached, mapped, chunk, body, now, tokIn, patch>>

NextSwap == SwapIdToken \/ SwapAccessToken

SpecSwap == InitSwap /\ [][NextSwap]_vars

----------------------------------------------------------------------------
\* Claims about the response mappers

\* the token behind the marker in the body
TokenBehind(c, marker) == TokenAt(c, MatchMarker(c, marker))

\* C3: in playback of a token response the access token is swapped, the hash
\* of the newly signed access token is computed and the id token is swapped
\* with it: in the returned body the at_hash of the id token is the hash of
\* the access token of that body, and both are signed with the fixed key.
C3_AtHashBinding ==
  (pc = "responded" /\ data.isTokenReq /\ ~record) =>
    LET idToken == TokenBehind(body, MarkerIdToken)
        accessToken == TokenBehind(body, MarkerAccessToken)
    IN /\ idToken.claims.at_hash = tokenHashGenerate(accessToken)
       /\ accessToken.sig.secret = KeysPrivatePem
       /\ idToken.sig.secret = KeysPrivatePem
       /\ accessToken # TokenBehind(chunk, MarkerAccessToken)

\* a token response was played back whose id token had the at_hash of the
\* recorded access token
C3_Witness ==
  /\ pc = "responded" /\ data.isTokenReq /\ ~record
  /\ TokenBehind(chunk, MarkerIdToken).claims.at_hash
       = tokenHashGenerate(TokenBehind(chunk, MarkerAccessToken))
  /\ TokenBehind(body, MarkerIdToken).claims.at_hash
       # TokenBehind(chunk, MarkerIdToken).claims.at_hash

\* the claims of a swapped token that the patch {nonce, iss} does not name
\* are the input token's
OtherClaimsKept == tokOut.claims.sub = tokIn.claims.sub /\ tokOut.claims.at_hash = tokIn.claims.at_hash

\* C4: a token returned by swapIdToken or swapAccessToken for a patch
\* {nonce, iss} has the fixed key's kid, the input's algorithm, the patch's
\* nonce and iss, exp = now + 3600, every other claim as in the input, and a
\* signature made with the fixed private key over that header and payload.
C4_SwappedToken ==
  (pc \in {"swappedId", "swappedAccess"} /\ patch.at_hash = HashUndefined) =>
    /\ tokOut.header.kid = KeysKid
    /\ tokOut.header.alg = tokIn.header.alg
    /\ tokOut.claims.nonce = patch.nonce
    /\ tokOut.claims.iss = patch.iss
    /\ tokOut.claims.exp = now + 3600
    /\ OtherClaimsKept
    /\ tokOut.sig = [secret |-> KeysPrivatePem, alg |-> tokIn.header.alg,
                     header |-> tokOut.header, payload |-> tokOut.claims]

\* C5: swapIdToken called with a patch that has no at_hash returns an id
\* token whose at_hash is the input token's: there with the same value, or
\* not there.
C5_AtHashKeptWithoutPatch ==
  (pc = "swappedId" /\ patch.at_hash = HashUndefined) =>
    tokOut.claims.at_hash = tokIn.claims.at_hash

\* the markers the flow flags say the body has
ExpectedMarkers ==
  (IF data.isAuthorizeReq /\ data.responseMode = JsString(<<"o","k","t","a","_","p","o","s","t","_","m","e","s","s","a","g","e">>)
   THEN {MarkerIdTokenAssignment, MarkerAccessToken} ELSE {})
  \cup (IF data.isTokenReq
        THEN IF record THEN {MarkerIdToken} ELSE {MarkerAccessToken, MarkerIdToken}
        ELSE {})

MarkersOf(c) == {c[i].kind : i \in DOMAIN c} \cap Markers

\* C8: when a flow flag says a token is in the body and an expected marker is
\* not in the cached body, mapCachedBodyToResponse throws and returns no
\* body; a returned body has every expected token swapped.
C8_MissingMarkerThrows ==
  pc \in {"responded", "failed"} =>
    /\ ~(ExpectedMarkers \subseteq MarkersOf(chunk)) => (pc = "failed" /\ err = "TypeError" /\ body = <<>>)
    /\ pc = "responded" =>
         \A m \in ExpectedMarkers : TokenBehind(body, m).sig.secret = KeysPrivatePem

\* the first expected token was there and the second was not
C8_Witness ==
  /\ pc = "failed"
  /\ data.isTokenReq /\ ~record
  /\ MarkerAccessToken \in MarkersOf(chunk)
  /\ MarkerIdToken \notin MarkersOf(chunk)


----------------------------------------------------------------------------
\* Claims about the normalizer


\* the key=value parts of the url's query string, as written
QueryParts(url) ==
  LET q == FindFrom(url, <<"?">>, 1)
  IN IF q = 0 THEN {} ELSE Range(split(Slice(url, q + 1, Len(url)), "&"))

\* the request was an authorize request with one state and one nonce parameter
AuthorizeWithStateAndNonce ==
  /\ Contains(orig.url, <<"a","u","t","h","o","r","i","z","e","?">>)
  /\ Occurrences(orig.params, <<"s","t","a","t","e">>) = 1
  /\ Occurrences(orig.params, <<"n","o","n","c","e">>) = 1

\* C2: for a request whose url contains 'authorize?' with state=S and nonce=N,
\* percent-encoded or not, mapRequestToCache returns isAuthorizeReq = true,
\* state = S and nonce = N, and leaves the url with state=STATE and nonce=NONCE
\* in place of the values S and N.
C2_AuthorizeNormalized ==
  (pc = "normalized" /\ AuthorizeWithStateAndNonce) =>
    /\ data.isAuthorizeReq
    /\ \A S \in Values(orig.params, <<"s","t","a","t","e">>) : data.state = JsString(S)
    /\ \A N \in Values(orig.params, <<"n","o","n","c","e">>) : data.nonce = JsString(N)
    /\ <<"s","t","a","t","e","=","S","T","A","T","E">> \in QueryParts(req.url)
    /\ <<"n","o","n","c","e","=","N","O","N","C","E">> \in QueryParts(req.url)
    /\ \A w \in Written(orig.params, <<"s","t","a","t","e">>) : (<<"s","t","a","t","e","=">> \o w) \notin QueryParts(req.url)
    /\ \A w \in Written(orig.params, <<"n","o","n","c","e">>) : (<<"n","o","n","c","e","=">> \o w) \notin QueryParts(req.url)

AtMostOne(bs) == Cardinality({i \in DOMAIN bs : bs[i]}) <= 1

\* the flow conditions the arrived request satisfies, in the order of the chain
Shape ==
  <<IsAuthorizeUrl(orig.url), IsAuthnUrl(orig.url), IsSessionDelete(orig.url, orig.method),
    IsRedirectUrl(orig.url), IsTokenUrl(orig.url), ~record /\ IsUserinfoUrl(orig.url)>>

NoneBefore(k) == \A i \in 1..(k - 1) : ~Shape[i]

\* C6: the returned extract has at most one of isAuthorizeReq,
\* isRedirectCallback and isTokenReq set, and a flow branch is applied to a
\* request only if none of the earlier-listed ones applied: the cookie is
\* removed only by the authorize and authn branches, the redirect and token
\* flags and the forced authorization header appear only when no earlier
\* condition held.
C6_FlowBranchesExclusive ==
  pc = "normalized" =>
    /\ AtMostOne(<<data.isAuthorizeReq, data.isRedirectCallback, data.isTokenReq>>)
    /\ data.isAuthorizeReq <=> Shape[1]
    /\ req.headers["cookie"] = Undef <=> (Shape[1] \/ Shape[2])
    /\ data.cookie # Undef <=> (Shape[1] \/ Shape[2] \/ Shape[3])
    /\ data.isRedirectCallback <=> (Shape[4] /\ NoneBefore(4))
    /\ data.isTokenReq <=> (Shape[5] /\ NoneBefore(5))
    /\ req.headers["authorization"] # Undef <=> (Shape[6] /\ NoneBefore(6))

\* a request that satisfies the authorize and the redirect-callback condition
\* was handled as an authorize request only
C6_Witness ==
  /\ pc = "normalized"
  /\ Shape[1] /\ Shape[4]
  /\ data.isAuthorizeReq /\ ~data.isRedirectCallback

\* C7: mapRequestToCache has no error outcome: for every request, a CORS
\* preflight without access-control-request-headers included, and either
\* value of record, it completes and returns an extract.
C7_NeverThrows == pc # "received" => (err = "none" /\ pc # "failed")

Count(xs, x) == Cardinality({i \in DOMAIN xs : xs[i] = x})

\* the names listed in a normalized access-control-request-headers value
Listed(v) ==
  IF v = <<>> THEN <<>>
  ELSE LET parts == split(v, ",") IN [i \in 1..Len(parts) |-> trim(parts[i])]

\* C9: for a CORS preflight request the header lists the input names, trimmed,
\* without accept and origin, sorted and joined with ', '; the result is the
\* same for every order of the names; 'Origin, X-Foo, Accept' yields 'x-foo'.
C9_PreflightHeaderList ==
  (pc = "normalized" /\ Truthy(orig.headers["access-control-request-method"])) =>
    LET out == req.headers["access-control-request-headers"]
        names == [i \in DOMAIN orig.names |-> trim(orig.names[i])]
    IN /\ out = join(Listed(out), <<","," ">>)
       /\ \A i \in 1..(Len(Listed(out)) - 1) : ~StrLess(Listed(out)[i + 1], Listed(out)[i])
       /\ \A n \in Range(names) \cup Range(Listed(out)) :
            Count(Listed(out), n) = IF n \in {<<"a","c","c","e","p","t">>, <<"o","r","i","g","i","n">>} THEN 0 ELSE Count(names, n)
       /\ \A f \in [DOMAIN orig.names -> DOMAIN orig.names] :
            Range(f) = DOMAIN orig.names =>
              NormalizeRequestHeaders(join([i \in DOMAIN f |-> orig.names[f[i]]], <<",">>)) = out
       /\ orig.names = <<<<"O","r","i","g","i","n">>, <<" ","X","-","F","o","o">>, <<" ","A","c","c","e","p","t">>>> => out = <<"x","-","f","o","o">>

\* C10: applying mapRequestToCache a second time to the normalized request
\* leaves its headers and its url as the first application left them.
C10_Idempotent ==
  [][(pc = "normalized" /\ pc' = "renormalized") =>
       (req'.headers = req.headers /\ req'.url = req.url)]_vars

====
